---- MODULE Spec2Model ----
(***************************************************************************)
(* A model of reddit_frustration_scraper.py: the keyword matcher, the      *)
(* quality filter, the comment extractor, and the run of main() from       *)
(* construction through scrape_all_subreddits to save_data.                *)
(*                                                                         *)
(* Text is a sequence of one-character strings, so that str.lower() and    *)
(* the `in` substring test are computed rather than assumed.               *)
(***************************************************************************)
EXTENDS Integers, Sequences, FiniteSets, TLC

VARIABLES
    pc,          \* position of main(): see PcValues
    config,      \* the configuration file as the run will find it
    idx,         \* scrape_all_subreddits: 1-based index of the community in hand
    all_posts,   \* scrape_all_subreddits: all_posts
    posts,       \* scrape_subreddit: posts
    yielded,     \* submissions the content source has yielded for the community in hand
    source_error,\* whether the community in hand ended in `except ResponseException`
    returned,    \* history: the list each finished scrape_subreddit call returned
    counts,      \* the "Found N frustration posts" log lines, one per community
    fetches,     \* history: the (community, ranking mode) of each listing request
    save_calls,  \* number of save_data invocations
    file,        \* the output file: "absent", "open" (created, not yet dumped), "json", "csv"
    stopped_at,  \* the pc at which an interrupt or uncaught error ended the run
    call,        \* a pure function under test and its inputs (function specifications)
    result       \* <<>> before the function has run, <<value>> after

vars == <<pc, config, idx, all_posts, posts, yielded, source_error, returned,
          counts, fetches, save_calls, file, stopped_at, call, result>>

runVars == <<pc, config, idx, all_posts, posts, yielded, source_error, returned,
             counts, fetches, save_calls, file, stopped_at>>

----------------------------------------------------------------------------
(* Bounds *)

MaxTextLen == 3        \* longest text handed to the keyword matcher
MaxKeywordLen == 2     \* longest keyword
MaxKeywords == 1       \* longest keyword list
MaxScore == 2          \* scores, comment counts and thresholds range over 0..MaxScore
MaxForest == 3         \* longest comment sequence of a submission
MaxCount == 2          \* largest max_comments
MaxSubs == 2           \* longest configured community list
MaxPosts == 2          \* post_limit: most submissions one listing yields

----------------------------------------------------------------------------
(* Text *)

Chars == {"a", "A", "b"}

\* str.lower() on one character
LowerChar(c) ==
    CASE c = "A" -> "a"
      [] c = "B" -> "b"
      [] c = "D" -> "d"
      [] OTHER -> c

\* str.lower()
Lower(t) == [i \in 1..Len(t) |-> LowerChar(t[i])]

\* Python's `k in t` on strings: k occurs in t as a contiguous run
\* (the empty string occurs in every string)
Contains(t, k) ==
    \E i \in 0..(Len(t) - Len(k)) :
        \A j \in 1..Len(k) : t[i + j] = k[j]

SeqsUpTo(S, n) == UNION {[1..m -> S] : m \in 0..n}

----------------------------------------------------------------------------
(* Keyword matcher *)

\* any(keyword.lower() in text_lower for keyword in keywords), scanned from
\* keyword i on
RECURSIVE AnyKeywordFrom(_, _, _)
AnyKeywordFrom(keywords, text_lower, i) ==
    IF i > Len(keywords) THEN FALSE
    ELSE IF Contains(text_lower, Lower(keywords[i])) THEN TRUE
    ELSE AnyKeywordFrom(keywords, text_lower, i + 1)

\* mutant: the text is not lower-cased
_contains_frustration_keywords_NoTextLower(keywords, text) ==
    AnyKeywordFrom(keywords, text, 1)

_contains_frustration_keywords(keywords, text) ==
    AnyKeywordFrom(keywords, Lower(text), 1)

----------------------------------------------------------------------------
(* Quality filter *)

\* the literal '[deleted]' of line 91
DeletedBody == <<"[", "d", "e", "l", "e", "t", "e", "d", "]">>

\* mutant: the score threshold is exclusive
_meets_filter_criteria_ScoreExclusive(filters, submission) ==
    IF submission.score <= filters.min_score THEN FALSE
    ELSE IF submission.num_comments < filters.min_comments THEN FALSE
    ELSE IF filters.exclude_nsfw /\ submission.over_18 THEN FALSE
    ELSE IF filters.exclude_deleted /\ submission.selftext = DeletedBody THEN FALSE
    ELSE TRUE

_meets_filter_criteria(filters, submission) ==
    IF submission.score < filters.min_score THEN FALSE
    ELSE IF submission.num_comments < filters.min_comments THEN FALSE
    ELSE IF filters.exclude_nsfw /\ submission.over_18 THEN FALSE
    ELSE IF filters.exclude_deleted /\ submission.selftext = DeletedBody THEN FALSE
    ELSE TRUE

----------------------------------------------------------------------------
(* Comment extractor *)

\* Python's None, as the author of a deleted account
None == "<None>"

\* str(x.author) if x.author else '[deleted]'
ResolveAuthor(author) == IF author = None THEN "[deleted]" ELSE author

Min(a, b) == IF a <= b THEN a ELSE b
Max(a, b) == IF a >= b THEN a ELSE b

\* Python's s[:k] for an integer k: the first k items, or for a negative k all
\* but the last -k
SliceTo(s, k) ==
    SubSeq(s, 1, IF k >= 0 THEN Min(k, Len(s)) ELSE Max(Len(s) + k, 0))

CommentData(comment) ==
    [id     |-> comment.id,
     body   |-> comment.body,
     score  |-> comment.score,
     author |-> ResolveAuthor(comment.author)]

\* the loop of lines 151-158 over an already sliced sequence
RECURSIVE CollectComments(_, _, _)
CollectComments(sliced, i, comments) ==
    IF i > Len(sliced) THEN comments
    ELSE IF sliced[i].has_body
         THEN CollectComments(sliced, i + 1, Append(comments, CommentData(sliced[i])))
         ELSE CollectComments(sliced, i + 1, comments)

\* mutant: entries without a body are dropped before the slice is taken
_get_top_comments_FilterThenSlice(max_comments, submission) ==
    SliceTo(CollectComments(submission.comments, 1, <<>>), max_comments)

\* submission.comments is the comment sequence as it stands after
\* replace_more(limit=0), a call into the client library
_get_top_comments(max_comments, submission) ==
    CollectComments(SliceTo(submission.comments, max_comments), 1, <<>>)

----------------------------------------------------------------------------
(* The three decision functions, each applied once to inputs drawn from     *)
(* bounded sets.  The run of main() is idle in these specifications.        *)

IdleRun ==
    /\ pc = "idle"
    /\ config = [startup |-> "idle"]
    /\ idx = 0
    /\ all_posts = <<>>
    /\ posts = <<>>
    /\ yielded = <<>>
    /\ source_error = FALSE
    /\ returned = <<>>
    /\ counts = <<>>
    /\ fetches = <<>>
    /\ save_calls = 0
    /\ file = "absent"
    /\ stopped_at = "none"

Texts == SeqsUpTo(Chars, MaxTextLen)
KeywordLists == SeqsUpTo(SeqsUpTo(Chars, MaxKeywordLen), MaxKeywords)

InitKeywords ==
    /\ IdleRun
    /\ call \in {[fn |-> "_contains_frustration_keywords", keywords |-> k, text |-> t] :
                    k \in KeywordLists, t \in Texts}
    /\ result = <<>>

CallContainsFrustrationKeywords ==
    /\ call.fn = "_contains_frustration_keywords"
    /\ result = <<>>
    /\ result' = <<_contains_frustration_keywords(call.keywords, call.text)>>
    /\ UNCHANGED <<call, runVars>>

SpecKeywords == InitKeywords /\ [][CallContainsFrustrationKeywords]_vars

FilterBodies == {<<>>, <<"a">>, DeletedBody, DeletedBody \o <<"b">>,
                 <<"[", "D", "e", "l", "e", "t", "e", "d", "]">>}

FilterConfigs ==
    [min_score : 0..MaxScore, min_comments : 0..MaxScore,
     exclude_nsfw : BOOLEAN, exclude_deleted : BOOLEAN]

FilterSubmissions ==
    [score : 0..MaxScore, num_comments : 0..MaxScore,
     over_18 : BOOLEAN, selftext : FilterBodies]

InitFilter ==
    /\ IdleRun
    /\ call \in {[fn |-> "_meets_filter_criteria", filters |-> f, submission |-> sub] :
                    f \in FilterConfigs, sub \in FilterSubmissions}
    /\ result = <<>>

CallMeetsFilterCriteria ==
    /\ call.fn = "_meets_filter_criteria"
    /\ result = <<>>
    /\ result' = <<_meets_filter_criteria(call.filters, call.submission)>>
    /\ UNCHANGED <<call, runVars>>

SpecFilter == InitFilter /\ [][CallMeetsFilterCriteria]_vars

\* entries of a comment sequence: two comments, one of a deleted account, and
\* one entry that exposes no body
ForestEntries ==
    {[id |-> "c1", has_body |-> TRUE,  body |-> "first",  score |-> 5, author |-> "commenter1"],
     [id |-> "c2", has_body |-> TRUE,  body |-> "second", score |-> 3, author |-> None],
     [id |-> "m1", has_body |-> FALSE, body |-> "",       score |-> 0, author |-> None]}

InitComments ==
    /\ IdleRun
    /\ call \in {[fn |-> "_get_top_comments", max_comments |-> m,
                  submission |-> [comments |-> c]] :
                    m \in (-MaxCount)..MaxCount, c \in SeqsUpTo(ForestEntries, MaxForest)}
    /\ result = <<>>

CallGetTopComments ==
    /\ call.fn = "_get_top_comments"
    /\ result = <<>>
    /\ result' = <<_get_top_comments(call.max_comments, call.submission)>>
    /\ UNCHANGED <<call, runVars>>

SpecComments == InitComments /\ [][CallGetTopComments]_vars

----------------------------------------------------------------------------
(* Claims about the decision functions *)

\* k occurs in t: t = u \o k \o v for some u and v
IsSubstring(k, t) ==
    \E i \in 0..Len(t) : \E j \in i..Len(t) : SubSeq(t, i + 1, j) = k

KeywordCallDone == call.fn = "_contains_frustration_keywords" /\ result # <<>>

SomeKeywordOccurs ==
    \E n \in 1..Len(call.keywords) :
        IsSubstring(Lower(call.keywords[n]), Lower(call.text))

FilterCallDone == call.fn = "_meets_filter_criteria" /\ result # <<>>

ScoreViolated == call.submission.score < call.filters.min_score
CommentsViolated == call.submission.num_comments < call.filters.min_comments
NsfwViolated == call.filters.exclude_nsfw /\ call.submission.over_18
DeletedViolated == call.filters.exclude_deleted /\ call.submission.selftext = DeletedBody

\* C10: _meets_filter_criteria(S) is false whenever any single threshold is
\* violated, whatever the others, and true when none is violated.
C10_FilterCriteria ==
    FilterCallDone =>
        /\ ScoreViolated => result[1] = FALSE
        /\ CommentsViolated => result[1] = FALSE
        /\ NsfwViolated => result[1] = FALSE
        /\ DeletedViolated => result[1] = FALSE
        /\ ~(ScoreViolated \/ CommentsViolated \/ NsfwViolated \/ DeletedViolated)
              => result[1] = TRUE

\* a submission rejected for its removed body alone, every other check passing
C10_Witness ==
    /\ FilterCallDone
    /\ DeletedViolated
    /\ ~ScoreViolated /\ ~CommentsViolated /\ ~NsfwViolated
    /\ call.submission.score = call.filters.min_score
    /\ result[1] = FALSE

CommentsCallDone == call.fn = "_get_top_comments" /\ result # <<>>

HasBody(entry) == entry.has_body

\* the first n entries of s (none for n <= 0)
FirstN(s, n) == SubSeq(s, 1, Min(Max(n, 0), Len(s)))

\* the entries among the first max_comments that expose a body, in order
ExpectedComments ==
    LET kept == SelectSeq(FirstN(call.submission.comments, call.max_comments), HasBody)
    IN  [n \in 1..Len(kept) |-> CommentData(kept[n])]

\* C8 as stated: for every max_comments, _get_top_comments returns at most
\* max_comments comments: exactly the entries among the first max_comments
\* that expose a body, in their order.
C8_AsStated ==
    CommentsCallDone =>
        /\ Len(result[1]) <= call.max_comments
        /\ result[1] = ExpectedComments

\* C8, amended: for every max_comments >= 0, _get_top_comments returns at most
\* max_comments comments: exactly the entries among the first max_comments
\* that expose a body, in their order.
C8_TopComments ==
    (CommentsCallDone /\ call.max_comments >= 0) =>
        /\ Len(result[1]) <= call.max_comments
        /\ result[1] = ExpectedComments

\* the cap cut the sequence and an entry without a body was skipped
C8_Witness ==
    /\ CommentsCallDone
    /\ call.max_comments = 2
    /\ Len(call.submission.comments) = 3
    /\ ~call.submission.comments[1].has_body
    /\ call.submission.comments[3].has_body
    /\ Len(result[1]) = 1

----------------------------------------------------------------------------
(* The run of main() *)

Communities == {"a", "b"}

\* config['scraping']['keywords'] and config['filters'] of the runs modelled
\* (the filters are those of the repository's test configuration)
RunKeywords == << <<"a", "b">> >>
RunFilters == [min_score |-> 1, min_comments |-> 0,
               exclude_nsfw |-> TRUE, exclude_deleted |-> TRUE]

\* sections and keys a configuration file may lack
MissingKeys == {"reddit_api", "scraping", "subreddits", "time_filter", "post_limit",
                "keywords", "filters", "output"}

\* the (time_filter, include_comments, format) settings of the runs modelled:
\* the test configuration, and each other branch of lines 106-111, 134 and
\* 179-186 at least once
RunProfiles ==
    {<<"week", FALSE, "json">>, <<"week", TRUE, "json">>,
     <<"month", TRUE, "csv">>, <<"all", FALSE, "xml">>}

\* the configuration files and credentials a run may start from: a complete
\* one, or the test configuration with a single startup fault
ConfigSpace ==
    {c \in [startup : {"ok", "file_missing", "malformed_json", "oauth_failure"},
            missing : MissingKeys \cup {"none"},
            subreddits : SeqsUpTo(Communities, MaxSubs),
            time_filter : {"week", "month", "all"},
            post_limit : {MaxPosts},
            keywords : {RunKeywords},
            filters : {RunFilters},
            include_comments : BOOLEAN,
            max_comments : {1},
            format : {"json", "csv", "xml"}] :
        /\ <<c.time_filter, c.include_comments, c.format>> \in RunProfiles
        /\ c.startup # "ok" => c.missing = "none"
        /\ (c.startup # "ok" \/ c.missing # "none") =>
              /\ c.time_filter = "week"
              /\ c.format = "json"}

\* the kinds of submission a community holds: one matching by its title, one
\* by its body alone, one matching but under min_score, one matching nothing
SubmissionKinds ==
    {[id |-> "p1", title |-> <<"A", "b">>, selftext |-> <<>>,
      score |-> 2, num_comments |-> 2, over_18 |-> FALSE, author |-> "u1",
      comments |-> <<[id |-> "m1", has_body |-> FALSE, body |-> "", score |-> 0,
                      author |-> None],
                     [id |-> "c1", has_body |-> TRUE, body |-> "first", score |-> 5,
                      author |-> "commenter1"]>>],
     [id |-> "p2", title |-> <<"b">>, selftext |-> <<"b", "a", "B">>,
      score |-> 1, num_comments |-> 0, over_18 |-> FALSE, author |-> None,
      comments |-> <<[id |-> "c2", has_body |-> TRUE, body |-> "second", score |-> 3,
                      author |-> None]>>],
     [id |-> "p3", title |-> <<"a", "b">>, selftext |-> <<"a">>,
      score |-> 0, num_comments |-> 1, over_18 |-> FALSE, author |-> "u1",
      comments |-> <<>>],
     [id |-> "p4", title |-> <<"b", "a">>, selftext |-> <<"A">>,
      score |-> 2, num_comments |-> 1, over_18 |-> FALSE, author |-> "u1",
      comments |-> <<>>]}

\* the submissions of a community: a submission belongs to one community and
\* its identifier is its own
SubmissionsOf(community) ==
    {[kind EXCEPT !.id = <<community, kind.id>>] : kind \in SubmissionKinds}

Submissions == UNION {SubmissionsOf(community) : community \in Communities}

\* lines 106-111: the listing requested for a time_filter
RankingMode(time_filter) ==
    IF time_filter = "week" THEN "top/week"
    ELSE IF time_filter = "month" THEN "top/month"
    ELSE "hot"

\* lines 115-116: the keyword test on title and body
MatchesKeywords(cfg, submission) ==
    \/ _contains_frustration_keywords(cfg.keywords, submission.title)
    \/ _contains_frustration_keywords(cfg.keywords, submission.selftext)

\* mutant: the quality filter is not consulted
Selected_NoFilter(cfg, submission) ==
    MatchesKeywords(cfg, submission)

\* mutant: only the title is searched for keywords
Selected_TitleOnly(cfg, submission) ==
    /\ _contains_frustration_keywords(cfg.keywords, submission.title)
    /\ _meets_filter_criteria(cfg.filters, submission)

\* lines 115-119: whether a submission is kept
Selected(cfg, submission) ==
    /\ MatchesKeywords(cfg, submission)
    /\ _meets_filter_criteria(cfg.filters, submission)

\* lines 120-135 (created_utc, url and permalink, copied verbatim, are left out)
PostData(cfg, subreddit_name, submission) ==
    LET post_data == [id           |-> submission.id,
                      title        |-> submission.title,
                      selftext     |-> submission.selftext,
                      score        |-> submission.score,
                      num_comments |-> submission.num_comments,
                      subreddit    |-> subreddit_name,
                      author       |-> ResolveAuthor(submission.author)]
    IN  IF cfg.include_comments
        THEN [comments |-> _get_top_comments(cfg.max_comments, submission)] @@ post_data
        ELSE post_data

\* mutant: the new posts are put in front
Extend_InFront(list, more) == more \o list

\* line 169: all_posts.extend(posts)
Extend(list, more) == list \o more

InitRun ==
    /\ pc = "load"
    /\ config \in ConfigSpace
    /\ idx = 0
    /\ all_posts = <<>>
    /\ posts = <<>>
    /\ yielded = <<>>
    /\ source_error = FALSE
    /\ returned = <<>>
    /\ counts = <<>>
    /\ fetches = <<>>
    /\ save_calls = 0
    /\ file = "absent"
    /\ stopped_at = "none"

\* the process ends: what it held in memory is gone, what it logged, requested
\* and wrote stays
EndProcess(how) ==
    /\ pc' = how
    /\ stopped_at' = pc
    /\ idx' = 0
    /\ all_posts' = <<>>
    /\ posts' = <<>>
    /\ yielded' = <<>>
    /\ source_error' = FALSE
    /\ returned' = <<>>
    /\ UNCHANGED <<config, counts, fetches, save_calls, file, call, result>>

\* main(): `except Exception` prints the error and exits with status 1;
\* sys.exit(1) of _initialize_reddit ends the same way
Exit1 == EndProcess("exit1")

\* __init__ -> _load_config
_load_config ==
    /\ pc = "load"
    /\ IF config.startup \in {"file_missing", "malformed_json"}
       THEN Exit1
       ELSE /\ pc' = "auth"
            /\ UNCHANGED <<config, idx, all_posts, posts, yielded, source_error,
                           returned, counts, fetches, save_calls, file, stopped_at,
                           call, result>>

\* __init__ -> _initialize_reddit, _setup_logging
_initialize_reddit ==
    /\ pc = "auth"
    /\ IF config.missing = "reddit_api" \/ config.startup = "oauth_failure"
       THEN Exit1
       ELSE /\ pc' = "run"
            /\ UNCHANGED <<config, idx, all_posts, posts, yielded, source_error,
                           returned, counts, fetches, save_calls, file, stopped_at,
                           call, result>>

\* run() -> scrape_all_subreddits, lines 164-165
StartScrapeAll ==
    /\ pc = "run"
    /\ IF config.missing \in {"scraping", "subreddits"}
       THEN Exit1
       ELSE /\ pc' = "loop"
            /\ idx' = 1
            /\ all_posts' = <<>>
            /\ UNCHANGED <<config, posts, yielded, source_error, returned, counts,
                           fetches, save_calls, file, stopped_at, call, result>>

\* scrape_subreddit, lines 98-111: the listing of the next community is requested
BeginSubreddit ==
    /\ pc = "loop"
    /\ idx <= Len(config.subreddits)
    /\ IF config.missing \in {"time_filter", "post_limit"}
       THEN Exit1
       ELSE /\ pc' = "iter"
            /\ posts' = <<>>
            /\ yielded' = <<>>
            /\ source_error' = FALSE
            /\ fetches' = Append(fetches, [community |-> config.subreddits[idx],
                                           mode |-> RankingMode(config.time_filter),
                                           limit |-> config.post_limit])
            /\ UNCHANGED <<config, idx, all_posts, returned, counts, save_calls,
                           file, stopped_at, call, result>>

\* lines 113-137: the listing yields a submission of the community, one it has
\* not yielded before, and the loop body runs on it
NextSubmission ==
    /\ pc = "iter"
    /\ Len(yielded) < config.post_limit
    /\ \E submission \in SubmissionsOf(config.subreddits[idx]) :
          /\ \A n \in 1..Len(yielded) : yielded[n].id # submission.id
          /\ IF \/ config.missing = "keywords"
                \/ config.missing = "filters" /\ MatchesKeywords(config, submission)
                \/ config.missing = "output" /\ Selected(config, submission)
             THEN Exit1
             ELSE /\ yielded' = Append(yielded, submission)
                  /\ posts' = IF Selected(config, submission)
                              THEN Append(posts, PostData(config, config.subreddits[idx],
                                                          submission))
                              ELSE posts
                  /\ UNCHANGED <<pc, config, idx, all_posts, source_error, returned,
                                 counts, fetches, save_calls, file, stopped_at, call,
                                 result>>

\* the listing is exhausted
EndOfListing ==
    /\ pc = "iter"
    /\ pc' = "ret"
    /\ UNCHANGED <<config, idx, all_posts, posts, yielded, source_error, returned,
                   counts, fetches, save_calls, file, stopped_at, call, result>>

\* lines 139-140: the listing raises ResponseException, when first asked for a
\* submission or between two submissions
SourceError ==
    /\ pc = "iter"
    /\ Len(yielded) < config.post_limit
    /\ pc' = "ret"
    /\ source_error' = TRUE
    /\ UNCHANGED <<config, idx, all_posts, posts, yielded, returned, counts,
                   fetches, save_calls, file, stopped_at, call, result>>

\* the listing raises an exception that is no ResponseException: no handler
\* but main()'s catches it
SourceFailure ==
    /\ pc = "iter"
    /\ Len(yielded) < config.post_limit
    /\ Exit1

\* mutant: the output file is rewritten after every community
ReturnSubreddit_SavesAsItGoes ==
    /\ pc = "ret"
    /\ returned' = Append(returned, posts)
    /\ all_posts' = Extend(all_posts, posts)
    /\ counts' = Append(counts, Len(posts))
    /\ idx' = idx + 1
    /\ posts' = <<>>
    /\ yielded' = <<>>
    /\ source_error' = FALSE
    /\ pc' = "loop"
    /\ save_calls' = save_calls + 1
    /\ file' = config.format
    /\ UNCHANGED <<config, fetches, stopped_at, call, result>>

\* line 142 and lines 168-170: scrape_subreddit returns, its posts are added
\* and counted
ReturnSubreddit ==
    /\ pc = "ret"
    /\ returned' = Append(returned, posts)
    /\ all_posts' = Extend(all_posts, posts)
    /\ counts' = Append(counts, Len(posts))
    /\ idx' = idx + 1
    /\ posts' = <<>>
    /\ yielded' = <<>>
    /\ source_error' = FALSE
    /\ pc' = "loop"
    /\ UNCHANGED <<config, fetches, save_calls, file, stopped_at, call, result>>

\* line 172 and run(), lines 195-207
FinishScrapeAll ==
    /\ pc = "loop"
    /\ idx > Len(config.subreddits)
    /\ pc' = IF all_posts # <<>> THEN "save" ELSE "exit0"
    /\ UNCHANGED <<config, idx, all_posts, posts, yielded, source_error, returned,
                   counts, fetches, save_calls, file, stopped_at, call, result>>

\* save_data, lines 176-184: the output file is created
save_data ==
    /\ pc = "save"
    /\ save_calls' = save_calls + 1
    /\ IF config.format \in {"json", "csv"}
       THEN pc' = "dump" /\ file' = "open"
       ELSE pc' = "exit0" /\ file' = file
    /\ UNCHANGED <<config, idx, all_posts, posts, yielded, source_error, returned,
                   counts, fetches, stopped_at, call, result>>

\* save_data, lines 181 and 186: the posts are written
WriteOutput ==
    /\ pc = "dump"
    /\ file' = config.format
    /\ pc' = "exit0"
    /\ UNCHANGED <<config, idx, all_posts, posts, yielded, source_error, returned,
                   counts, fetches, save_calls, stopped_at, call, result>>

\* main(): KeyboardInterrupt, at any point of the run
Interrupt ==
    /\ pc \in {"load", "auth", "run", "loop", "iter", "ret", "save", "dump"}
    /\ EndProcess("interrupted")

Init == InitRun /\ call = [fn |-> "none"] /\ result = <<>>

Next ==
    \/ _load_config
    \/ _initialize_reddit
    \/ StartScrapeAll
    \/ BeginSubreddit
    \/ NextSubmission
    \/ EndOfListing
    \/ SourceError
    \/ SourceFailure
    \/ ReturnSubreddit
    \/ FinishScrapeAll
    \/ save_data
    \/ WriteOutput
    \/ Interrupt

Spec == Init /\ [][Next]_vars

----------------------------------------------------------------------------
(* Claims about the run *)

RECURSIVE Flatten(_)
Flatten(lists) ==
    IF lists = <<>> THEN <<>> ELSE Head(lists) \o Flatten(Tail(lists))

RECURSIVE SumSeq(_)
SumSeq(numbers) ==
    IF numbers = <<>> THEN 0 ELSE Head(numbers) + SumSeq(Tail(numbers))

IsPrefix(a, b) == Len(a) <= Len(b) /\ SubSeq(b, 1, Len(a)) = a

\* between the first and the last line of scrape_all_subreddits
Scraping == pc \in {"loop", "iter", "ret"}

\* scrape_all_subreddits has returned
Scraped == pc \in {"save", "dump", "exit0"}

\* the submission a post was built from
SubmissionOf(post) == CHOOSE submission \in Submissions : submission.id = post.id

\* a submission matches a keyword in title or body and passes the filter
Qualifies(submission) ==
    /\ \/ _contains_frustration_keywords(config.keywords, submission.title)
       \/ _contains_frustration_keywords(config.keywords, submission.selftext)
    /\ _meets_filter_criteria(config.filters, submission)

\* C1 as stated: a community whose listing raised a source error, at its start
\* or part-way, returns no post, and every configured community is still
\* processed.
C1_AsStated ==
    /\ (pc = "ret" /\ source_error) => posts = <<>>
    /\ Scraped => Len(counts) = Len(config.subreddits)

\* C2: every post of scrape_subreddit's list, and of the aggregated list, was
\* built from a submission whose title or body matches a keyword and which
\* meets the filter criteria.
C2_OnlySelected ==
    /\ \A n \in 1..Len(posts) : Qualifies(SubmissionOf(posts[n]))
    /\ \A n \in 1..Len(all_posts) : Qualifies(SubmissionOf(all_posts[n]))

\* a community yielded a submission that fails the filter and one that matches
\* no keyword, and a post of an earlier community is held
C2_Witness ==
    /\ pc = "ret"
    /\ Len(yielded) = 2
    /\ yielded[1].id[2] = "p3"
    /\ yielded[2].id[2] = "p4"
    /\ posts = <<>>
    /\ Len(all_posts) = 1

\* C3: when no source error occurred, scrape_subreddit returns one record per
\* yielded submission that qualifies, in yield order, and nothing else.
C3_ExactlySelected ==
    (pc = "ret" /\ ~source_error) =>
        LET kept == SelectSeq(yielded, Qualifies)
        IN  /\ Len(posts) = Len(kept)
            /\ \A n \in 1..Len(kept) :
                  /\ posts[n].id = kept[n].id
                  /\ posts[n].title = kept[n].title
                  /\ posts[n].subreddit = config.subreddits[idx]

\* a listing ended without error having yielded a submission matched by its
\* body alone and then one matched by its title
C3_Witness ==
    /\ pc = "ret"
    /\ ~source_error
    /\ Len(yielded) = 2
    /\ Len(posts) = 2
    /\ posts[1].id[2] = "p2"
    /\ posts[2].id[2] = "p1"

\* C4: while and after scrape_all_subreddits runs, all_posts is the
\* concatenation, in configured order, of the lists scrape_subreddit returned,
\* its length is the sum of the logged counts, and a step of the scrape only
\* ever appends to it.
C4_Aggregation ==
    /\ [](Scraping \/ pc \in {"save", "dump"} =>
            /\ all_posts = Flatten(returned)
            /\ Len(all_posts) = SumSeq(counts)
            /\ Len(returned) = Len(counts)
            /\ \A i \in 1..Len(returned) :
                  /\ counts[i] = Len(returned[i])
                  /\ \A n \in 1..Len(returned[i]) :
                        returned[i][n].subreddit = config.subreddits[i])
    /\ [][(Scraping /\ (Scraping \/ Scraped)') => IsPrefix(all_posts, all_posts')]_vars

\* two different communities each contributed posts and the scrape is over
C4_Witness ==
    /\ pc = "save"
    /\ Len(counts) = 2
    /\ counts[1] = 2
    /\ counts[2] = 1
    /\ all_posts[1].subreddit = "b"
    /\ all_posts[3].subreddit = "a"

\* the configuration file is absent or malformed, lacks a section or key the
\* run reads, or the credentials are refused
FatalStartup == config.startup # "ok" \/ config.missing # "none"

\* C5 as stated: when the configuration file is absent, the configuration lacks
\* a required field, or authentication fails, no listing is ever requested and
\* no submission is processed.
C5_AsStated ==
    (pc # "idle" /\ FatalStartup) => (fetches = <<>> /\ yielded = <<>>)

\* C6: save_data is invoked at most once, and only once every configured
\* community has been scraped; a run that an interrupt or an error ended
\* before or during the scrape has written nothing.
C6_WrittenOnceAtEnd ==
    /\ save_calls <= 1
    /\ save_calls = 1 =>
          /\ pc \in {"dump", "exit0", "interrupted"}
          /\ Len(counts) = Len(config.subreddits)
    /\ file # "absent" => save_calls = 1
    /\ (pc \in {"exit1", "interrupted"} /\ stopped_at \notin {"save", "dump"}) =>
          (file = "absent" /\ save_calls = 0)

\* a run over two communities has written its output and ended
C6_Witness ==
    /\ pc = "exit0"
    /\ save_calls = 1
    /\ file = "json"
    /\ Len(counts) = 2
    /\ counts[2] > 0

\* C7 as stated: the posts of the aggregated list have pairwise distinct
\* identifiers.
C7_AsStated ==
    \A m, n \in 1..Len(all_posts) : m # n => all_posts[m].id # all_posts[n].id

====
